---- MODULE Spec2Model ----
(***************************************************************************)
(* Model of ScreenComply Lite's system-integrity polling agent:            *)
(*   src/system_monitor.py  SystemIntegrityWorker (scheduler loop,         *)
(*                          activity tracker, extension cache)             *)
(*   src/logger.py          LiteLogger (the log sink)                      *)
(*   src/app.py             ScreenComplyLiteApp (start / shutdown path,    *)
(*                          event handlers of the main window)             *)
(*                                                                         *)
(* Time: `clock` is the wall clock read by time.time(), in whole seconds.  *)
(* It advances when a poll reads it and never moves backwards.             *)
(* Durations of the main thread's wait() are counted in milliseconds.      *)
(***************************************************************************)
EXTENDS Integers, Sequences, FiniteSets, TLC

\* ------------------------------------------------------------------------
\* Bounds of the model
\* ------------------------------------------------------------------------
\* polls (iterations of the while loop of run()) explored per behaviour
MaxPolls == 2
\* the wall clock runs from Epoch to Epoch + MaxElapsed
MaxElapsed == 63
\* window handles 1..BulkWindows in the two bulk enumerations
BulkWindows == 251
\* calls of QThread.start() on one worker instance
MaxRuns == 2
\* direct calls of _get_browser_stats() in the tracker harness
MaxStatsPolls == 3
\* direct calls of _get_extension_summary() in the scanner harness
MaxExtCalls == 3
\* windows of one browser in the enumerations of the window probe
MaxInfoWindows == 12
\* processes in the listings of the process probe
MaxProcs == 3
\* nearby networks and ARP neighbours seen by the network probe
MaxSsids == 11
MaxDevices == 6

\* ------------------------------------------------------------------------
\* Program constants
\* ------------------------------------------------------------------------
\* collections.deque(maxlen=500)
HistoryMaxLen == 500
\* now - self._switch_history[0] > 60
HistoryWindow == 60
\* now_ts - self._ext_cache_time < 10.0
ExtCacheTtl == 10
\* self.system_worker.wait(2000)
WaitTimeoutMs == 2000
\* SystemIntegrityWorker(logger=self.logger, interval=5.0), in milliseconds
AppIntervalMs == 5000
\* _time_module.sleep(0.1), in milliseconds
SliceMs == 100
\* for t in titles[:10]
MaxShownTitles == 10
\* if len(t) > 120
TitleMaxLen == 120
\* t[:117]
TitleCutLen == 117
\* len("...")
EllipsisLen == 3
\* for s in ssids[:10]
MaxShownNetworks == 10
\* for d in devices[:5]
MaxShownDevices == 5

\* wall-clock value at which the session starts (time.time() is far from 0)
Epoch == 100
\* granularity with which the model observes the main thread's wait()
WaitTickMs == 1000
\* how long the model follows a wait() that has no timeout
WaitForeverMs == 4000

None == "None"

\* ------------------------------------------------------------------------
\* Window titles.  A title is a sequence of text pieces; its text is their
\* concatenation.  Matching is done piece by piece.
\* ------------------------------------------------------------------------
Platforms == {"Windows", "Darwin", "Linux"}

\* str.lower() on the pieces the model uses
Lower(piece) ==
    CASE piece = " - Google Chrome" -> " - google chrome"
      [] piece = " - Mozilla Firefox" -> " - mozilla firefox"
      [] piece = " - Microsoft Edge" -> " - microsoft edge"
      [] piece = " - GOOGLE CHROME" -> " - google chrome"
      [] piece = " - Firefox" -> " - firefox"
      [] piece = "DevTools" -> "devtools"
      [] piece = "Extensions" -> "extensions"
      [] piece = "Docs" -> "docs"
      [] piece = "Gmail" -> "gmail"
      [] piece = "Notes" -> "notes"
      [] OTHER -> piece

\* TITLE_PATTERNS, lower-cased, in dictionary order
Families == <<"Chrome", "Brave", "Edge", "Firefox", "Opera", "Chromium", "Vivaldi">>

TITLE_PATTERNS(name) ==
    CASE name = "Chrome"   -> {" - google chrome", " - chrome"}
      [] name = "Brave"    -> {" - brave"}
      [] name = "Edge"     -> {" - microsoft edge", " - ms edge", " - edge"}
      [] name = "Firefox"  -> {" - mozilla firefox", " - firefox"}
      [] name = "Opera"    -> {" - opera"}
      [] name = "Chromium" -> {" - chromium"}
      [] name = "Vivaldi"  -> {" - vivaldi"}

\* pat.lower() in title.lower()
Contains(title, pats) == \E i \in 1..Len(title) : Lower(title[i]) \in pats

RECURSIVE ClassifyFrom(_, _)
ClassifyFrom(title, k) ==
    IF k > Len(Families) THEN None
    ELSE IF Contains(title, TITLE_PATTERNS(Families[k])) THEN Families[k]
    ELSE ClassifyFrom(title, k + 1)

\* classify_browser(title): first family with a pattern found in the title
classify_browser(title) == ClassifyFrom(title, 1)

T_Docs  == <<"Docs", " - Google Chrome">>
T_Gmail == <<"Gmail", " - Google Chrome">>
T_Notes == <<"Notes">>
T_Fox   == <<"Docs", " - Mozilla Firefox">>
T_Upper == <<"Gmail", " - GOOGLE CHROME">>
\* a text editor's window whose document name quotes a browser title
T_Quote == <<"Docs", " - Google Chrome", "Notes">>
\* titles of exactly 120 and of 121 characters
T_Long120 == <<"Page100", "Docs", " - Google Chrome">>
T_Long121 == <<"Page101", "Docs", " - Google Chrome">>

\* len() of the pieces the model uses
PieceLen(piece) ==
    CASE piece = "Docs" -> 4
      [] piece = "Gmail" -> 5
      [] piece = "Notes" -> 5
      [] piece = "Page100" -> 100
      [] piece = "Page101" -> 101
      [] piece = " - Google Chrome" -> 16
      [] piece = " - GOOGLE CHROME" -> 16
      [] piece = " - Mozilla Firefox" -> 18
      [] OTHER -> 1

RECURSIVE TitleLen(_)
\* len(t)
TitleLen(title) ==
    IF title = << >> THEN 0 ELSE PieceLen(Head(title)) + TitleLen(Tail(title))

\* handles of the windows in the ordinary enumerations
WindowHandles == {1, 2}

\* what EnumWindows can show: handle -> title of a visible window.
\* Browser windows on any subset of the handles ...
SmallWindowMaps ==
    UNION { [hs -> {T_Docs, T_Gmail}] : hs \in SUBSET WindowHandles }

\* ... many browser windows showing the same page ...
BulkMap(t) == [h \in 1..BulkWindows |-> t]

\* ... and a window that is not a browser's
OtherMap == [h \in {1} |-> T_Notes]

\* enumerations offered to the tracker harness
TrackerWindowMaps ==
    SmallWindowMaps \cup {OtherMap, BulkMap(T_Docs), BulkMap(T_Gmail)}

\* enumerations offered to a poll of the scheduler
SchedWindowMaps == { [h \in {1} |-> T_Docs], [h \in {1} |-> T_Gmail] }

\* ------------------------------------------------------------------------
\* Extension scanner (_get_extension_summary)
\* ------------------------------------------------------------------------
ExtBrowsers(plat) ==
    IF plat = "Windows" THEN <<"Chrome", "Brave", "Edge">>
    ELSE <<"Chrome", "Brave", "Edge", "Chromium">>

AllExtBrowsers == {"Chrome", "Brave", "Edge", "Chromium"}

\* a candidate directory is missing, unreadable, or holds n sub-directories
Missing == [kind |-> "missing", n |-> 0]
Unreadable == [kind |-> "error", n |-> 0]
Holds(n) == [kind |-> "dir", n |-> n]

FsAllMissing == [local |-> TRUE, dirs |-> [b \in AllExtBrowsers |-> Missing]]
FsChromeOne  == [local |-> TRUE,
                 dirs |-> [b \in AllExtBrowsers |-> IF b = "Chrome" THEN Holds(1) ELSE Missing]]
FsBraveError == [local |-> TRUE,
                 dirs |-> [b \in AllExtBrowsers |->
                             IF b = "Brave" THEN Unreadable
                             ELSE IF b = "Edge" THEN Holds(2) ELSE Missing]]
FsNoLocal    == [local |-> FALSE, dirs |-> [b \in AllExtBrowsers |-> Missing]]

TrackerFileSystems == {FsChromeOne}
ExtFileSystems == {FsAllMissing, FsChromeOne, FsBraveError, FsNoLocal}
SchedFileSystems == {FsChromeOne}

\* one line of the summary string
Line(name, text, n) == [name |-> name, text |-> text, n |-> n]
\* a summary that is a single fixed message
Message(text) == << Line("", text, 0) >>

RECURSIVE ScanRootsAbort(_, _, _)
\* variant: a directory that cannot be listed ends the scan
ScanRootsAbort(roots, k, fs) ==
    IF k > Len(roots) THEN << >>
    ELSE LET name == roots[k]
             d == fs.dirs[name]
         IN  IF d.kind = "missing" THEN ScanRootsAbort(roots, k + 1, fs)
             ELSE IF d.kind = "error"
                  THEN << Line(name, "error scanning", 0) >>
                  ELSE << Line(name, "extension(s)", d.n) >>
                           \o ScanRootsAbort(roots, k + 1, fs)

RECURSIVE ScanRoots(_, _, _)
\* the for loop over roots.items(): one line per existing directory
ScanRoots(roots, k, fs) ==
    IF k > Len(roots) THEN << >>
    ELSE LET name == roots[k]
             d == fs.dirs[name]
             rest == ScanRoots(roots, k + 1, fs)
         IN  IF d.kind = "missing" THEN rest
             ELSE IF d.kind = "error"
                  THEN << Line(name, "error scanning", 0) >> \o rest
                  ELSE << Line(name, "extension(s)", d.n) >> \o rest

\* the summary string computed from the file system (the part of
\* _get_extension_summary below the cache test)
Recompute(plat, fs) ==
    IF plat = "Windows" /\ ~fs.local
    THEN Message("(LOCALAPPDATA not found)")
    ELSE IF plat \notin {"Windows", "Darwin"}
    THEN Message("(extension scan not supported on this OS)")
    ELSE LET lines == ScanRoots(ExtBrowsers(plat), 1, fs)
         IN  IF lines # << >> THEN lines
             ELSE Message("(no extension roots found)")

\* variant: no cache, every call scans
ExtensionSummaryNoCache(plat, cache_time, cache_str, now_ts, fs) ==
    LET str == Recompute(plat, fs)
    IN  [time |-> now_ts, str |-> str, ret |-> str]

\* variant: the cached string is still served when it is exactly 10 s old
ExtensionSummaryLateExpiry(plat, cache_time, cache_str, now_ts, fs) ==
    IF now_ts - cache_time <= ExtCacheTtl
    THEN [time |-> cache_time, str |-> cache_str, ret |-> cache_str]
    ELSE LET str == Recompute(plat, fs)
         IN  [time |-> now_ts, str |-> str, ret |-> str]

\* _get_extension_summary(now_ts): the new cache slot and the returned string
ExtensionSummary(plat, cache_time, cache_str, now_ts, fs) ==
    IF now_ts - cache_time < ExtCacheTtl
    THEN [time |-> cache_time, str |-> cache_str, ret |-> cache_str]
    ELSE LET str == Recompute(plat, fs)
         IN  [time |-> now_ts, str |-> str, ret |-> str]

\* ------------------------------------------------------------------------
\* Activity tracker (_get_browser_stats and its per-platform branches)
\* ------------------------------------------------------------------------
\* browser_titles: the enumerated windows that classify as a browser
BrowserTitles(wins) ==
    [h \in {x \in DOMAIN wins : classify_browser(wins[x]) # None} |-> wins[h]]

\* prev.get(hwnd): the empty title stands for None (both are falsy)
PrevGet(prev, h) == IF h \in DOMAIN prev THEN prev[h] ELSE << >>

\* variant: the titles are not compared
IsSwitchAnyOld(old_title, new_title) == old_title # << >>

\* variant: a handle without a previous title counts as changed
IsSwitchNoGuard(old_title, new_title) == old_title # new_title

\* old_title and old_title != new_title
IsSwitch(old_title, new_title) == old_title # << >> /\ old_title # new_title

\* the handles for which the for loop over browser_titles.items() takes
\* its if branch (each key of the dict is visited once)
Switched(prev, titles) ==
    {h \in DOMAIN titles : IsSwitch(PrevGet(prev, h), titles[h])}

\* variant: appendleft(x), the newest entries are put at the head and a full
\* deque drops entries at the tail
DequeAppendLeftAll(hist, k, x) ==
    LET all == [i \in 1..k |-> x] \o hist
        n == Len(all)
    IN  IF n > HistoryMaxLen THEN SubSeq(all, 1, HistoryMaxLen) ELSE all

\* deque(maxlen=500) after k calls of append(x): the deque keeps the last
\* HistoryMaxLen elements of everything appended
DequeAppendAll(hist, k, x) ==
    LET all == hist \o [i \in 1..k |-> x]
        n == Len(all)
    IN  IF n > HistoryMaxLen THEN SubSeq(all, n - HistoryMaxLen + 1, n) ELSE all

\* variant: `if` instead of `while`, at most one entry is popped
EvictOnce(hist, now) ==
    IF hist # << >> /\ now - Head(hist) > HistoryWindow THEN Tail(hist) ELSE hist

\* while self._switch_history and now - self._switch_history[0] > 60: popleft()
\* pops up to the first element that is not older than the window
Evict(hist, now) ==
    LET old(i) == now - hist[i] > HistoryWindow
        first == CHOOSE i \in 1..(Len(hist) + 1) :
                     /\ i = Len(hist) + 1 \/ ~old(i)
                     /\ \A k \in 1..(i - 1) : old(k)
    IN  SubSeq(hist, first, Len(hist))

\* variant: the events are appended but the lifetime counter is not bumped
DiffNoCount(prev, titles, now, total, hist) ==
    LET events == Switched(prev, titles)
        k == Cardinality(events)
    IN  [total |-> total,
         hist |-> DequeAppendAll(hist, k, now),
         events |-> events]

\* variant: the counter is bumped once per poll that saw a switch
DiffCountOnce(prev, titles, now, total, hist) ==
    LET events == Switched(prev, titles)
        k == Cardinality(events)
    IN  [total |-> total + (IF k > 0 THEN 1 ELSE 0),
         hist |-> DequeAppendAll(hist, k, now),
         events |-> events]

\* variant: the counter restarts with every poll
DiffResetCount(prev, titles, now, total, hist) ==
    LET events == Switched(prev, titles)
        k == Cardinality(events)
    IN  [total |-> k,
         hist |-> DequeAppendAll(hist, k, now),
         events |-> events]

\* the for loop of the diff: one increment and one append per switched
\* handle, all appends carrying the same `now`
Diff(prev, titles, now, total, hist) ==
    LET events == Switched(prev, titles)
        k == Cardinality(events)
    IN  [total |-> total + k,
         hist |-> DequeAppendAll(hist, k, now),
         events |-> events]

DevToolsOpen(titles) ==
    \E h \in DOMAIN titles : Contains(titles[h], {"devtools", "developer tools"})

ExtensionsPageOpen(titles) ==
    \E h \in DOMAIN titles : Contains(titles[h], {"extensions", "extension"})

\* the tracker's fields of one worker
TrackerState(prev, hist, total, ctime, cstr) ==
    [prev |-> prev, hist |-> hist, total |-> total, ctime |-> ctime, cstr |-> cstr]

\* variant: the new titles are written into the old dict (dict.update)
NewPrevTitlesMerged(prev, titles) ==
    [h \in DOMAIN prev \cup DOMAIN titles |->
        IF h \in DOMAIN titles THEN titles[h] ELSE prev[h]]

\* self._prev_titles = browser_titles: the old dict is dropped
NewPrevTitles(prev, titles) == titles

\* _get_browser_stats_windows: new tracker state, switched handles, report
BrowserStatsWindows(st, wins, fs, now) ==
    LET titles == BrowserTitles(wins)
        d == Diff(st.prev, titles, now, st.total, st.hist)
        hist == Evict(d.hist, now)
        ext == ExtensionSummary("Windows", st.ctime, st.cstr, now, fs)
    IN  [st |-> TrackerState(NewPrevTitles(st.prev, titles), hist, d.total,
                             ext.time, ext.str),
         events |-> d.events,
         titles |-> titles,
         report |-> [kind |-> "windows", available |-> TRUE,
                     last60 |-> Len(hist), total |-> d.total,
                     devtools |-> DevToolsOpen(titles),
                     extpage |-> ExtensionsPageOpen(titles),
                     running |-> {},
                     ext |-> IF ext.ret # << >> THEN ext.ret
                             ELSE Message("(no extension folders found)")]]

\* BROWSER_PROCS of _get_browser_stats_macos
BROWSER_PROCS(browser) ==
    CASE browser = "Chrome"  -> {"Google Chrome"}
      [] browser = "Brave"   -> {"Brave Browser"}
      [] browser = "Firefox" -> {"firefox", "Firefox"}
      [] browser = "Edge"    -> {"Microsoft Edge"}
      [] browser = "Safari"  -> {"Safari"}
      [] browser = "Opera"   -> {"Opera"}

MacBrowsers == {"Chrome", "Brave", "Firefox", "Edge", "Safari", "Opera"}

\* outputs of `ps -ax -o comm=` (the empty one also stands for a failed ps)
PsOutputs == { {}, {"Google Chrome", "Finder"} }
SchedPsOutputs == { {"Google Chrome", "Finder"} }

\* _get_browser_stats_macos: only the extension cache changes
BrowserStatsMacos(st, ps_out, fs, now) ==
    LET ext == ExtensionSummary("Darwin", st.ctime, st.cstr, now, fs)
    IN  [st |-> TrackerState(st.prev, st.hist, st.total, ext.time, ext.str),
         events |-> {},
         titles |-> << >>,
         report |-> [kind |-> "macos", available |-> FALSE,
                     last60 |-> 0, total |-> 0,
                     devtools |-> FALSE, extpage |-> FALSE,
                     running |-> {b \in MacBrowsers : BROWSER_PROCS(b) \cap ps_out # {}},
                     ext |-> IF ext.ret # << >> THEN ext.ret
                             ELSE Message("(no extension folders found)")]]

\* the part of the environment a platform's branch looks at: windows are
\* enumerated on Windows only, ps is run on macOS only, the extension
\* folders are scanned on both
WindowsOn(plat, maps) == IF plat = "Windows" THEN maps ELSE {<< >>}
PsOn(plat, outs) == IF plat = "Darwin" THEN outs ELSE {{}}
FsOn(plat, fss) == IF plat \in {"Windows", "Darwin"} THEN fss ELSE {FsAllMissing}

\* _get_browser_stats: dispatch on PLATFORM
BrowserStats(plat, st, wins, ps_out, fs, now) ==
    IF plat = "Windows" THEN BrowserStatsWindows(st, wins, fs, now)
    ELSE IF plat = "Darwin" THEN BrowserStatsMacos(st, ps_out, fs, now)
    ELSE [st |-> st, events |-> {}, titles |-> << >>,
          report |-> [kind |-> "unsupported", available |-> FALSE,
                      last60 |-> 0, total |-> 0,
                      devtools |-> FALSE, extpage |-> FALSE,
                      running |-> {}, ext |-> << >>]]

\* ------------------------------------------------------------------------
\* Window probe (_get_browser_info and its per-platform branches)
\* ------------------------------------------------------------------------
Min(a, b) == IF a < b THEN a ELSE b

\* A shown title is the first `chars` characters of `text`, followed by the
\* ellipsis when it was cut.
\* variant: the title is cut at 120 characters and the ellipsis added
ShortenLate(t) ==
    IF TitleLen(t) > TitleMaxLen
    THEN [text |-> t, chars |-> TitleMaxLen, ellipsis |-> TRUE]
    ELSE [text |-> t, chars |-> TitleLen(t), ellipsis |-> FALSE]

\* if len(t) > 120: t = t[:117] + "..."
Shorten(t) ==
    IF TitleLen(t) > TitleMaxLen
    THEN [text |-> t, chars |-> TitleCutLen, ellipsis |-> TRUE]
    ELSE [text |-> t, chars |-> TitleLen(t), ellipsis |-> FALSE]

\* length of the line's title as printed
ShownLen(sh) == sh.chars + (IF sh.ellipsis THEN EllipsisLen ELSE 0)

RECURSIVE GroupKeys(_, _)
\* keys of the defaultdict in insertion order
GroupKeys(entries, seen) ==
    IF entries = << >> THEN << >>
    ELSE IF Head(entries).name \in seen THEN GroupKeys(Tail(entries), seen)
    ELSE << Head(entries).name >>
             \o GroupKeys(Tail(entries), seen \cup {Head(entries).name})

\* grouped[name]: the titles appended under one key, in order
TitlesOf(entries, name) ==
    LET IsMine(e) == e.name = name
        mine == SelectSeq(entries, IsMine)
    IN  [i \in 1..Len(mine) |-> mine[i].title]

\* the lines rendered for one key: count, up to 10 titles, "+N more"
RenderGroup(name, titles) ==
    [name |-> name,
     count |-> Len(titles),
     shown |-> [i \in 1..Min(Len(titles), MaxShownTitles) |-> Shorten(titles[i])],
     more |-> IF Len(titles) > MaxShownTitles
              THEN << Len(titles) - MaxShownTitles >> ELSE << >>]

\* for name, titles in grouped.items(): ...
RenderGroups(entries) ==
    LET keys == GroupKeys(entries, {})
    IN  [kind |-> "groups",
         groups |-> [i \in 1..Len(keys) |->
                        RenderGroup(keys[i], TitlesOf(entries, keys[i]))],
         found |-> {}]

\* a report that is one fixed message
InfoMessage(kind) == [kind |-> kind, groups |-> << >>, found |-> {}]

\* _get_browser_info_windows: `wins` are the titles of the visible windows
\* in enumeration order (the empty sequence is a window without title)
BrowserInfoWindows(wins) ==
    LET IsBrowser(t) == t # << >> /\ classify_browser(t) # None
        titled == SelectSeq(wins, IsBrowser)
        browser_windows == [i \in 1..Len(titled) |->
                               [name |-> classify_browser(titled[i]),
                                title |-> titled[i]]]
    IN  IF browser_windows = << >> THEN InfoMessage("none")
        ELSE RenderGroups(browser_windows)

\* BROWSER_NAMES of _get_browser_info_macos (the process names offered by
\* the model are matched whole)
BROWSER_NAMES == {"Google Chrome", "Brave Browser", "Firefox",
                  "Microsoft Edge", "Safari", "Opera", "Chromium"}

\* BROWSER_PROCS of _get_browser_info_macos_ps_fallback
FALLBACK_PROCS(browser) ==
    CASE browser = "Google Chrome"  -> "Google Chrome"
      [] browser = "Brave Browser"  -> "Brave Browser"
      [] browser = "Firefox"        -> "firefox"
      [] browser = "Microsoft Edge" -> "Microsoft Edge"
      [] browser = "Safari"         -> "Safari"
      [] browser = "Opera"          -> "Opera"

FallbackBrowsers == {"Google Chrome", "Brave Browser", "Firefox",
                     "Microsoft Edge", "Safari", "Opera"}

\* _get_browser_info_macos_ps_fallback: ps is [ok, out]
BrowserInfoMacosPsFallback(ps) ==
    IF ~ps.ok THEN InfoMessage("unable")
    ELSE LET found == {b \in FallbackBrowsers : FALLBACK_PROCS(b) \in ps.out}
         IN  IF found = {} THEN InfoMessage("none")
             ELSE [kind |-> "fallback", groups |-> << >>, found |-> found]

\* _get_browser_info_macos: osa is [ok, entries], the entries being the
\* "pname|title" pairs printed by the AppleScript
BrowserInfoMacos(osa, ps) ==
    IF ~osa.ok THEN BrowserInfoMacosPsFallback(ps)
    ELSE LET IsBrowser(e) == e.name \in BROWSER_NAMES
             grouped == SelectSeq(osa.entries, IsBrowser)
         IN  IF grouped = << >> THEN BrowserInfoMacosPsFallback(ps)
             ELSE RenderGroups(grouped)

\* _get_browser_info: dispatch on PLATFORM
BrowserInfo(plat, inp) ==
    IF plat = "Windows" THEN BrowserInfoWindows(inp.wins)
    ELSE IF plat = "Darwin" THEN BrowserInfoMacos(inp.osa, inp.ps)
    ELSE InfoMessage("unsupported")

\* enumerations offered to the window probe: n windows of one browser
\* showing the same page, other windows before and after them
SamePage(n) == [i \in 1..n |-> T_Docs]
WindowsBefore == { << >>, <<T_Notes>>, <<T_Fox>>, <<T_Quote>>, <<T_Upper>>,
                   <<T_Long120>>, <<T_Long121>>, << << >> >> }
WindowsAfter == { << >>, <<T_Fox>> }
InfoWindowLists ==
    { b \o SamePage(n) \o a :
        b \in WindowsBefore, n \in 0..MaxInfoWindows, a \in WindowsAfter }

OsaEntry(pname, title) == [name |-> pname, title |-> title]
OsaBefore == { << >>, << OsaEntry("Finder", T_Notes) >>,
               << OsaEntry("Safari", T_Long121) >> }
OsaFailed == [ok |-> FALSE, entries |-> << >>]
OsaOutputs ==
    {OsaFailed} \cup
    { [ok |-> TRUE,
       entries |-> b \o [i \in 1..n |-> OsaEntry("Google Chrome", T_Docs)]] :
        b \in OsaBefore, n \in 0..MaxInfoWindows }
InfoPsOutputs == { [ok |-> FALSE, out |-> {}], [ok |-> TRUE, out |-> {}],
                   [ok |-> TRUE, out |-> {"Google Chrome", "Finder"}] }

NoOsa == [ok |-> TRUE, entries |-> << >>]
NoPs == [ok |-> TRUE, out |-> {}]

\* what the window probe of a platform looks at
InfoInputs(plat) ==
    IF plat = "Windows"
    THEN { [wins |-> w, osa |-> NoOsa, ps |-> NoPs] : w \in InfoWindowLists }
    ELSE IF plat = "Darwin"
    THEN { [wins |-> << >>, osa |-> o, ps |-> p] :
             o \in OsaOutputs, p \in InfoPsOutputs }
    ELSE { [wins |-> << >>, osa |-> NoOsa, ps |-> NoPs] }

\* ------------------------------------------------------------------------
\* Process probe (_get_running_programs and its per-platform branches)
\* ------------------------------------------------------------------------
ProcNames == {"Zoom", "chrome", "Cluely", "explorer", "MyCluelyTool"}

\* str.lower() on the process names the model uses
LowerName(name) ==
    CASE name = "Zoom" -> "zoom"
      [] name = "Cluely" -> "cluely"
      [] name = "MyCluelyTool" -> "mycluelytool"
      [] OTHER -> name

\* the texts above in the order of Python's string comparison (code points:
\* capitals before small letters)
TextOrder == <<"", "Cluely", "MyCluelyTool", "Zoom", "chrome", "cluely",
               "explorer", "mycluelytool", "zoom">>

TextRank(text) == CHOOSE i \in 1..Len(TextOrder) : TextOrder[i] = text

\* "cluely" in text, for the texts above
ContainsCluely(text) == text \in {"cluely", "mycluelytool"}

\* variant: the names are compared as they are
SortKeyRaw(name) == TextRank(name)

\* key=lambda x: x[0].lower()
SortKey(name) == TextRank(LowerName(name))

\* list.sort is stable: a process goes behind those whose key is not larger
InsertByKey(sorted, p) ==
    LET before == {i \in 1..Len(sorted) : SortKey(sorted[i].name) <= SortKey(p.name)}
        k == Cardinality(before)
    IN  SubSeq(sorted, 1, k) \o <<p>> \o SubSeq(sorted, k + 1, Len(sorted))

RECURSIVE SortFrom(_, _, _)
SortFrom(processes, k, sorted) ==
    IF k > Len(processes) THEN sorted
    ELSE SortFrom(processes, k + 1, InsertByKey(sorted, processes[k]))

\* processes.sort(key=lambda x: x[0].lower())
SortProcesses(processes) == SortFrom(processes, 1, << >>)

\* any("cluely" in p[0].lower() for p in processes)
CluelyRunning(processes) ==
    \E i \in 1..Len(processes) : ContainsCluely(LowerName(processes[i].name))

ProgMessage(kind) == [kind |-> kind, cluely |-> FALSE, lines |-> << >>]

\* the flag and one line per process
ProgList(processes) ==
    LET sorted == SortProcesses(processes)
    IN  [kind |-> "list", cluely |-> CluelyRunning(sorted), lines |-> sorted]

\* _get_running_programs_windows: tasklist is [status, rows], a row being
\* the columns of one CSV line: [name, pid, mem, cols]
RunningProgramsWindows(tasklist) ==
    IF tasklist.status = "timeout" THEN ProgMessage("timeout")
    ELSE IF tasklist.status = "error" THEN ProgMessage("error")
    ELSE LET HasTwo(r) == r.cols >= 2
             rows == SelectSeq(tasklist.rows, HasTwo)
             processes == [i \in 1..Len(rows) |->
                             [name |-> rows[i].name, pid |-> rows[i].pid,
                              mem |-> IF rows[i].cols >= 5 THEN rows[i].mem ELSE ""]]
         IN  ProgList(processes)

\* _get_running_programs_macos: ps is [status, rows], a row being one line
\* "pid comm": [pid, comm, parts], comm the components of the path
RunningProgramsMacos(ps) ==
    IF ps.status = "timeout" THEN ProgMessage("timeout")
    ELSE IF ps.status = "error" THEN ProgMessage("error")
    ELSE LET HasTwo(r) == r.parts >= 2
             rows == SelectSeq(ps.rows, HasTwo)
             processes == [i \in 1..Len(rows) |->
                             [name |-> rows[i].comm[Len(rows[i].comm)],
                              pid |-> rows[i].pid, mem |-> ""]]
         IN  ProgList(processes)

\* _get_running_programs: dispatch on PLATFORM
RunningPrograms(plat, inp) ==
    IF plat = "Windows" THEN RunningProgramsWindows(inp)
    ELSE IF plat = "Darwin" THEN RunningProgramsMacos(inp)
    ELSE ProgMessage("unsupported")

\* process names in the order the listing prints them
NameLists == UNION { [1..n -> ProcNames] : n \in 0..MaxProcs }

\* a line of the listing that does not split into two fields
JunkCsv == [name |-> "", pid |-> 0, mem |-> "", cols |-> 1]
JunkPs == [pid |-> 0, comm |-> <<"">>, parts |-> 1]

TasklistOutputs ==
    { [status |-> "timeout", rows |-> << >>], [status |-> "error", rows |-> << >>] }
    \cup
    { [status |-> "ok",
       rows |-> [i \in 1..Len(names) |->
                    [name |-> names[i], pid |-> i, mem |-> "8 K", cols |-> c]]
                \o junk] :
        names \in NameLists, c \in {2, 5}, junk \in {<< >>, <<JunkCsv>>} }

ProcDirs == { <<"usr", "bin">>, <<"Applications", "Cluely.app">> }

PsListOutputs ==
    { [status |-> "timeout", rows |-> << >>], [status |-> "error", rows |-> << >>] }
    \cup
    { [status |-> "ok",
       rows |-> [i \in 1..Len(names) |->
                    [pid |-> i, comm |-> dir \o <<names[i]>>, parts |-> 2]]
                \o junk] :
        names \in NameLists, dir \in ProcDirs, junk \in {<< >>, <<JunkPs>>} }

\* what the process probe of a platform looks at
ProgInputs(plat) ==
    IF plat = "Windows" THEN TasklistOutputs
    ELSE IF plat = "Darwin" THEN PsListOutputs
    ELSE { [status |-> "ok", rows |-> << >>] }

\* ------------------------------------------------------------------------
\* Network probe (_get_network_info and its per-platform branches)
\* ------------------------------------------------------------------------
\* One section of the report.  kind: "data" (the section is populated),
\* "empty" (nothing is appended), "error" / "unavailable" (the inline line
\* of a failed sub-probe), "absent" (the code never got there).
Section(sec, kind, total, shown, more, state, ssid) ==
    [sec |-> sec, kind |-> kind, total |-> total, shown |-> shown,
     more |-> more, state |-> state, ssid |-> ssid]

Inline(sec, kind) == Section(sec, kind, 0, << >>, << >>, "", "")

\* first try block: the interface lines, or "Interface Error: ..."
IfaceSection(o) ==
    IF ~o.ok THEN Inline("iface", "error")
    ELSE Section("iface", "data", Len(o.items), o.items, << >>, "", "")

\* second try block on Windows: state or 'Unknown', ssid or 'None'
WifiSectionWindows(o) ==
    IF ~o.ok THEN Inline("wifi", "unavailable")
    ELSE Section("wifi", "data", 0, << >>, << >>,
                 IF o.state # "" THEN o.state ELSE "Unknown",
                 IF o.ssid # "" THEN o.ssid ELSE "None")

\* second try block on macOS: the line printed by networksetup
WifiSectionMacos(o) ==
    IF ~o.ok THEN Inline("wifi", "unavailable")
    ELSE Section("wifi", "data", 0, << >>, << >>, "", o.ssid)

\* third try block on Windows: ssids[:10] and "(+N more)"
NearbySectionWindows(o) ==
    IF ~o.ok THEN Inline("nearby", "unavailable")
    ELSE IF o.items = << >> THEN Inline("nearby", "empty")
    ELSE Section("nearby", "data", 0,
                 SubSeq(o.items, 1, Min(Len(o.items), MaxShownNetworks)),
                 IF Len(o.items) > MaxShownNetworks
                 THEN << Len(o.items) - MaxShownNetworks >> ELSE << >>,
                 "", "")

\* third block on macOS: the airport utility, ssids[:10], nothing after
NearbySectionMacos(o) ==
    IF ~o.tool THEN Inline("nearby", "unavailable")
    ELSE IF ~o.ok THEN Inline("nearby", "unavailable")
    ELSE IF o.items = << >> THEN Inline("nearby", "empty")
    ELSE Section("nearby", "data", 0,
                 SubSeq(o.items, 1, Min(Len(o.items), MaxShownNetworks)),
                 << >>, "", "")

\* fourth try block: the count, devices[:5] and "(+N more)"
ArpSection(o) ==
    IF ~o.ok THEN Inline("arp", "error")
    ELSE Section("arp", "data", Len(o.items),
                 SubSeq(o.items, 1, Min(Len(o.items), MaxShownDevices)),
                 IF Len(o.items) > MaxShownDevices
                 THEN << Len(o.items) - MaxShownDevices >> ELSE << >>,
                 "", "")

\* variant: one try block around the four commands; the first failure
\* ends the report
NetworkInfoWindowsOneTry(inp) ==
    LET all == << IfaceSection(inp.iface), WifiSectionWindows(inp.wifi),
                  NearbySectionWindows(inp.nets), ArpSection(inp.arp) >>
        oks == << inp.iface.ok, inp.wifi.ok, inp.nets.ok, inp.arp.ok >>
    IN  [raised |-> FALSE,
         sections |-> [i \in 1..4 |->
                          IF \E j \in 1..(i - 1) : ~oks[j]
                          THEN Inline(all[i].sec, "absent") ELSE all[i]]]

\* _get_network_info_windows: four try blocks, one after the other
NetworkInfoWindows(inp) ==
    [raised |-> FALSE,
     sections |-> << IfaceSection(inp.iface), WifiSectionWindows(inp.wifi),
                     NearbySectionWindows(inp.nets), ArpSection(inp.arp) >>]

\* _get_network_info_macos
NetworkInfoMacos(inp) ==
    [raised |-> FALSE,
     sections |-> << IfaceSection(inp.iface), WifiSectionMacos(inp.wifi),
                     NearbySectionMacos(inp.nets), ArpSection(inp.arp) >>]

\* _get_network_info: dispatch on PLATFORM
NetworkInfo(plat, inp) ==
    IF plat = "Windows" THEN NetworkInfoWindows(inp)
    ELSE IF plat = "Darwin" THEN NetworkInfoMacos(inp)
    ELSE [raised |-> FALSE, sections |-> << >>]

\* outcomes of the four commands: a failure (tool absent, permission
\* denied, timeout), or the items parsed from the output
Items(n) == [i \in 1..n |-> i]
CmdFailed == [ok |-> FALSE, tool |-> TRUE, items |-> << >>, state |-> "", ssid |-> ""]
CmdOk(items, state, ssid) ==
    [ok |-> TRUE, tool |-> TRUE, items |-> items, state |-> state, ssid |-> ssid]
ToolAbsent == [ok |-> TRUE, tool |-> FALSE, items |-> << >>, state |-> "", ssid |-> ""]

IfaceOutcomes == {CmdFailed, CmdOk(Items(0), "", ""), CmdOk(Items(2), "", "")}
WifiOutcomes == {CmdFailed, CmdOk(<< >>, "", ""), CmdOk(<< >>, "connected", "Lab")}
NearbyOutcomes(plat) ==
    {CmdFailed} \cup {CmdOk(Items(n), "", "") : n \in 0..MaxSsids}
    \cup (IF plat = "Darwin" THEN {ToolAbsent} ELSE {})
ArpOutcomes == {CmdFailed} \cup {CmdOk(Items(n), "", "") : n \in 0..MaxDevices}

\* what the network probe of a platform looks at
NetInputs(plat) ==
    IF plat \in {"Windows", "Darwin"}
    THEN { [iface |-> i, wifi |-> w, nets |-> n, arp |-> a] :
             i \in IfaceOutcomes, w \in WifiOutcomes,
             n \in NearbyOutcomes(plat), a \in ArpOutcomes }
    ELSE { [iface |-> CmdFailed, wifi |-> CmdFailed, nets |-> CmdFailed,
            arp |-> CmdFailed] }

\* ------------------------------------------------------------------------
\* State
\* ------------------------------------------------------------------------
VARIABLES
    platform,        \* PLATFORM
    clock,           \* time.time(), seconds
    \* SystemIntegrityWorker
    wpc,             \* position of the worker thread in run()
    stop_requested,  \* self._stop_requested
    interval_ms,     \* self._interval, in milliseconds
    slices_left,     \* iterations left in the for loop of run()
    results,         \* the results dict of the poll in progress
    prev_titles,     \* self._prev_titles
    switch_history,  \* self._switch_history
    total_switches,  \* self._total_switches
    ext_cache_time,  \* self._ext_cache_time
    ext_cache_str,   \* self._ext_cache_str
    \* LiteLogger
    session_start,   \* self._session_start
    snapshot_count,  \* self._snapshot_count
    jsonl,           \* records appended to system_integrity.jsonl
    summary,         \* session_summary.json as computed by close()
    \* ScreenComplyLiteApp
    app_pc,          \* position of the main thread
    app_logger,      \* self.logger is not None
    waited_ms,       \* time spent so far in system_worker.wait(2000)
    queued,          \* user input waiting in the event queue of the GUI thread
    ret,             \* where the main thread continues when the call under
                     \* way returns (innermost first)
    \* observations (history of the run, not program state)
    sink_calls,      \* one record per call of log_system_integrity
    polls,           \* iterations of the while loop started so far
    last_fault,      \* the probe that raised in the current poll, or "none"
    any_fault,       \* some probe has raised in some poll
    slices_after_stop, \* sleep slices begun after stop() was requested
    slept_ms,        \* time slept in the for loop since the last poll ended
    runs,            \* calls of QThread.start() that began a run()
    obs,             \* the last call of _get_browser_stats
    ext_obs,         \* the last direct call of _get_extension_summary
    probe_obs,       \* the last direct call of a stateless probe
    calls            \* how often each step of the shutdown path has run

workerVars == <<wpc, stop_requested, interval_ms, slices_left, results>>
trackerVars == <<prev_titles, switch_history, total_switches,
                 ext_cache_time, ext_cache_str>>
loggerVars == <<session_start, snapshot_count, jsonl, summary>>
appVars == <<app_pc, app_logger, waited_ms>>
obsVars == <<sink_calls, polls, last_fault, any_fault, slices_after_stop, slept_ms,
             runs, obs>>
probeVars == <<ext_obs, probe_obs>>
uiVars == <<queued, ret, calls>>
vars == <<platform, clock, workerVars, trackerVars, loggerVars, appVars, obsVars,
          probeVars, uiVars>>

\* ------------------------------------------------------------------------
\* Payloads and records
\* ------------------------------------------------------------------------
NoReport == [kind |-> "none", available |-> FALSE, last60 |-> 0, total |-> 0,
             devtools |-> FALSE, extpage |-> FALSE, running |-> {}, ext |-> << >>]

NoResults == [browser_info |-> "", browser_stats |-> NoReport,
              network_info |-> "", programs_info |-> ""]

Probes == <<"browser_info", "browser_stats", "network_info", "programs_info">>

\* outcome of one evaluation of the results dict: the first probe that
\* raises, or "none"
ProbeOutcomes == {"none", "browser_info", "browser_stats", "network_info", "programs_info"}

NoObs == [polled |-> FALSE, n |-> 0, now |-> 0, prev |-> << >>, titles |-> << >>,
          events |-> {}, back |-> {}, pre_total |-> 0, pre_hist |-> << >>,
          report |-> NoReport]

NoExtObs == [called |-> FALSE, n |-> 0, now |-> 0, fs |-> FsAllMissing,
             pre_time |-> 0, pre_str |-> << >>, pre_cfs |-> FsAllMissing,
             ret |-> << >>, cfs |-> FsAllMissing,
             prev_now |-> 0, prev_fs |-> FsAllMissing, prev_ret |-> << >>]

NoProbeObs == [probe |-> "none", inp |-> << >>, out |-> << >>]

\* nothing of the shutdown path has run
NoCalls == [stop |-> 0, close |-> 0, end_session |-> 0, upload |-> 0,
            reentered |-> FALSE]

\* intervals a worker is constructed with, in milliseconds (the application
\* passes 5.0 s, i.e. 50 slices; the loop is explored with 0, 1 and 2 slices)
Intervals == {50, 100, 250}

\* variant: round(self._interval * 10)
SlicesRounded(iv_ms) == (iv_ms * 10 + 500) \div 1000

\* int(self._interval * 10)
Slices(iv_ms) == (iv_ms * 10) \div 1000

\* seconds the wall clock may advance before a poll reads it
SchedSteps == {1}
TrackerSteps == {1, 60, 61}
ExtSteps == {1, 9, 10}

\* ------------------------------------------------------------------------
\* Initial state: the application window is constructed and shows the
\* login screen; logger and worker fields hold their constructor values.
\* ------------------------------------------------------------------------
InitWith(intervals) ==
    /\ platform \in Platforms
    /\ clock = Epoch
    /\ wpc = "idle"
    /\ stop_requested = FALSE
    /\ interval_ms \in intervals
    /\ slices_left = 0
    /\ results = NoResults
    /\ prev_titles = << >>
    /\ switch_history = << >>
    /\ total_switches = 0
    /\ ext_cache_time = 0
    /\ ext_cache_str = Message("(no extension scan yet)")
    /\ session_start = Epoch
    /\ snapshot_count = 0
    /\ jsonl = << >>
    /\ summary = [written |-> FALSE, total_snapshots |-> 0]
    /\ app_pc = "login"
    /\ app_logger = FALSE
    /\ waited_ms = 0
    /\ sink_calls = << >>
    /\ polls = 0
    /\ last_fault = "none"
    /\ any_fault = FALSE
    /\ slices_after_stop = 0
    /\ slept_ms = 0
    /\ runs = 0
    /\ obs = NoObs
    /\ ext_obs = NoExtObs
    /\ probe_obs = NoProbeObs
    /\ queued = {}
    /\ ret = << >>
    /\ calls = NoCalls

\* the worker constructed with any of the intervals explored
Init == InitWith(Intervals)

\* the worker as the application constructs it; the harnesses below call
\* its methods directly and never enter run()
HarnessInit == InitWith({AppIntervalMs})

\* ------------------------------------------------------------------------
\* LiteLogger
\* ------------------------------------------------------------------------
\* log_entry built by log_system_integrity from the new count
LogEntry(count, now, data) ==
    [snapshot |-> count,
     timestamp_ms |-> (now - session_start) * 1000,
     browser_info |-> data.browser_info,
     browser_stats |-> data.browser_stats,
     network_info |-> data.network_info,
     programs_info |-> data.programs_info]

\* variant: the count is bumped only after a successful append
LogSystemIntegrityLateCount(count, file, now, data, write_ok) ==
    LET entry == [snapshot |-> count + 1,
                  timestamp_ms |-> (now - session_start) * 1000,
                  browser_info |-> data.browser_info,
                  browser_stats |-> data.browser_stats,
                  network_info |-> data.network_info,
                  programs_info |-> data.programs_info]
    IN  [count |-> IF write_ok THEN count + 1 ELSE count,
         file |-> IF write_ok THEN Append(file, entry) ELSE file,
         entry |-> entry,
         raised |-> FALSE]

\* variant: no try/except around the append
LogSystemIntegrityUncaught(count, file, now, data, write_ok) ==
    LET entry == LogEntry(count + 1, now, data)
    IN  [count |-> count + 1,
         file |-> IF write_ok THEN Append(file, entry) ELSE file,
         entry |-> entry,
         raised |-> ~write_ok]

\* log_system_integrity(integrity_data): count the snapshot, build the entry,
\* append it to the file; a failed append is caught and printed.
\* Result: the new count, the new file, the entry, whether it raised.
LogSystemIntegrity(count, file, now, data, write_ok) ==
    LET entry == LogEntry(count + 1, now, data)
    IN  [count |-> count + 1,
         file |-> IF write_ok THEN Append(file, entry) ELSE file,
         entry |-> entry,
         raised |-> FALSE]

\* ------------------------------------------------------------------------
\* SystemIntegrityWorker.run()
\* ------------------------------------------------------------------------
CurrentTracker ==
    TrackerState(prev_titles, switch_history, total_switches,
                 ext_cache_time, ext_cache_str)

SetTracker(st) ==
    /\ prev_titles' = st.prev
    /\ switch_history' = st.hist
    /\ total_switches' = st.total
    /\ ext_cache_time' = st.ctime
    /\ ext_cache_str' = st.cstr

\* handles enumerated by this call that the call before did not enumerate
\* but the one before that did, under another title
Reappeared(titles) ==
    {h \in DOMAIN titles : /\ h \notin DOMAIN obs.titles
                           /\ h \in DOMAIN obs.prev
                           /\ obs.prev[h] # titles[h]}

\* what one call of _get_browser_stats leaves behind for the properties
Observe(r, now) ==
    obs' = [polled |-> platform = "Windows", n |-> obs.n + 1, now |-> now,
            prev |-> prev_titles, titles |-> r.titles, events |-> r.events,
            back |-> Reappeared(r.titles),
            pre_total |-> total_switches, pre_hist |-> switch_history,
            report |-> r.report]

\* variant: no except clause, an exception ends run()
AfterTryUncaught(raised) == IF raised THEN "done" ELSE "for"

\* where run() continues after the try block: the exception of a probe or
\* of the sink is swallowed by `except Exception: pass`, so in both cases
\* the for loop of sleep slices is entered
AfterTry(raised) == "for"

EnterSleepLoop(raised) ==
    /\ wpc' = AfterTry(raised)
    /\ slices_left' = Slices(interval_ms)
    /\ slept_ms' = 0

\* variant: the loop runs until the application has dropped its logger
WhileCheckUntilLoggerGone ==
    /\ wpc = "while"
    /\ IF app_pc = "closed"
       THEN wpc' = "done" /\ polls' = polls /\ last_fault' = last_fault
       ELSE polls < MaxPolls /\ wpc' = "try" /\ polls' = polls + 1
            /\ last_fault' = "none"
    /\ UNCHANGED <<platform, slept_ms, probeVars, uiVars, clock, stop_requested, interval_ms, slices_left,
                   results, trackerVars, loggerVars, appVars,
                   sink_calls, any_fault, slices_after_stop, runs, obs>>

\* while not self._stop_requested
WhileCheck ==
    /\ wpc = "while"
    /\ IF stop_requested
       THEN wpc' = "done" /\ polls' = polls /\ last_fault' = last_fault
       ELSE polls < MaxPolls /\ wpc' = "try" /\ polls' = polls + 1
            /\ last_fault' = "none"
    /\ UNCHANGED <<platform, slept_ms, probeVars, uiVars, clock, stop_requested, interval_ms, slices_left,
                   results, trackerVars, loggerVars, appVars,
                   sink_calls, any_fault, slices_after_stop, runs, obs>>

\* the results dict: the four probes in order; `fault` is the first one
\* that raises.  _get_browser_stats runs, and updates the tracker, only if
\* browser_info returned; when it raises itself it does so while setting
\* up or running the enumeration, before it touches the tracker.
PollProbes(fault, wins, ps_out, fs, now) ==
    /\ wpc = "try"
    /\ clock' = now
    /\ last_fault' = fault
    /\ any_fault' = (any_fault \/ fault # "none")
    /\ IF fault \in {"browser_info", "browser_stats"}
       THEN /\ UNCHANGED <<trackerVars, obs, results>>
            /\ EnterSleepLoop(TRUE)
       ELSE LET r == BrowserStats(platform, CurrentTracker, wins, ps_out, fs, now)
            IN  /\ SetTracker(r.st)
                /\ Observe(r, now)
                /\ IF fault = "none"
                   THEN /\ results' = [browser_info |-> "browser_info",
                                       browser_stats |-> r.report,
                                       network_info |-> "network_info",
                                       programs_info |-> "programs_info"]
                        /\ wpc' = "log"
                        /\ UNCHANGED <<slices_left, slept_ms>>
                   ELSE /\ UNCHANGED results
                        /\ EnterSleepLoop(TRUE)
    /\ UNCHANGED <<platform, probeVars, uiVars, stop_requested, interval_ms, loggerVars, appVars,
                   sink_calls, polls, slices_after_stop, runs>>

Poll ==
    \E fault \in ProbeOutcomes, wins \in WindowsOn(platform, SchedWindowMaps),
       ps_out \in PsOn(platform, SchedPsOutputs), fs \in FsOn(platform, SchedFileSystems),
       d \in SchedSteps :
        PollProbes(fault, wins, ps_out, fs, clock + d)

\* variant: a failed append leaves the sink and run() as an exception
LogSnapshotEscapes ==
    /\ wpc = "log"
    /\ \E write_ok \in BOOLEAN :
         LET r == LogSystemIntegrity(snapshot_count, jsonl, clock, results, write_ok)
         IN  /\ snapshot_count' = r.count
             /\ jsonl' = r.file
             /\ sink_calls' = Append(sink_calls,
                    [entry |-> r.entry, persisted |-> write_ok, poll |-> polls,
                     run |-> runs, after_stop |-> stop_requested,
                     after_close |-> summary.written, raised |-> r.raised])
             /\ IF write_ok
                THEN EnterSleepLoop(FALSE)
                ELSE wpc' = "done" /\ UNCHANGED <<slices_left, slept_ms>>
    /\ results' = NoResults
    /\ UNCHANGED <<platform, probeVars, uiVars, clock, stop_requested, interval_ms, trackerVars,
                   session_start, summary, appVars,
                   polls, last_fault, any_fault, slices_after_stop, runs, obs>>

\* if self.logger: self.logger.log_system_integrity(results)
\* (the worker is always constructed with a logger)
LogSnapshot ==
    /\ wpc = "log"
    /\ \E write_ok \in BOOLEAN :
         LET r == LogSystemIntegrity(snapshot_count, jsonl, clock, results, write_ok)
         IN  /\ snapshot_count' = r.count
             /\ jsonl' = r.file
             /\ sink_calls' = Append(sink_calls,
                    [entry |-> r.entry, persisted |-> write_ok, poll |-> polls,
                     run |-> runs, after_stop |-> stop_requested,
                     after_close |-> summary.written, raised |-> r.raised])
             /\ EnterSleepLoop(r.raised)
    /\ results' = NoResults
    /\ UNCHANGED <<platform, probeVars, uiVars, clock, stop_requested, interval_ms, trackerVars,
                   session_start, summary, appVars,
                   polls, last_fault, any_fault, slices_after_stop, runs, obs>>

\* variant: the for loop sleeps the whole interval without looking at the flag
ForCheckNoBreak ==
    /\ wpc = "for"
    /\ IF slices_left = 0
       THEN wpc' = "while" /\ slices_left' = 0
       ELSE wpc' = "sleep" /\ slices_left' = slices_left
    /\ UNCHANGED <<platform, probeVars, uiVars, clock, stop_requested, interval_ms, results,
                   trackerVars, loggerVars, appVars, obsVars>>

\* for _ in range(int(self._interval * 10)): if self._stop_requested: break
ForCheck ==
    /\ wpc = "for"
    /\ IF slices_left = 0 \/ stop_requested
       THEN wpc' = "while" /\ slices_left' = 0
       ELSE wpc' = "sleep" /\ slices_left' = slices_left
    /\ UNCHANGED <<platform, probeVars, uiVars, clock, stop_requested, interval_ms, results,
                   trackerVars, loggerVars, appVars, obsVars>>

\* _time_module.sleep(0.1)
SleepSlice ==
    /\ wpc = "sleep"
    /\ wpc' = "for"
    /\ slices_left' = slices_left - 1
    /\ slices_after_stop' = IF stop_requested THEN slices_after_stop + 1
                            ELSE slices_after_stop
    /\ slept_ms' = slept_ms + SliceMs
    /\ UNCHANGED <<platform, probeVars, uiVars, clock, stop_requested, interval_ms, results,
                   trackerVars, loggerVars, appVars,
                   sink_calls, polls, last_fault, any_fault, runs, obs>>

\* ------------------------------------------------------------------------
\* ScreenComplyLiteApp (main thread)
\* ------------------------------------------------------------------------
\* start_monitoring: create the logger (LiteLogger.__init__), create a fresh
\* worker with its constructor values (SystemIntegrityWorker.__init__) and
\* start its thread.  The interval is the one drawn in Init.
StartMonitoring ==
    /\ app_pc = "login"
    /\ app_pc' = "monitoring"
    /\ app_logger' = TRUE
    /\ session_start' = clock
    /\ snapshot_count' = 0
    /\ stop_requested' = FALSE
    /\ prev_titles' = << >>
    /\ switch_history' = << >>
    /\ total_switches' = 0
    /\ ext_cache_time' = 0
    /\ ext_cache_str' = Message("(no extension scan yet)")
    /\ wpc' = "while"
    /\ runs' = runs + 1
    /\ UNCHANGED <<platform, slept_ms, probeVars, uiVars, clock, interval_ms, slices_left,
                   results, jsonl, summary, waited_ms,
                   sink_calls, polls, last_fault, any_fault, slices_after_stop, obs>>

\* the Close Session button or the window's close event, while a session
\* is being logged: _shutdown_and_upload begins
BeginShutdown ==
    /\ app_pc = "monitoring"
    /\ app_logger
    /\ app_pc' = "sd_stop"
    /\ UNCHANGED <<platform, probeVars, uiVars, clock, workerVars, trackerVars, loggerVars,
                   app_logger, waited_ms, obsVars>>

\* self.system_worker.stop()
StopWorker ==
    /\ app_pc = "sd_stop"
    /\ stop_requested' = TRUE
    /\ app_pc' = "sd_wait"
    /\ waited_ms' = 0
    /\ calls' = [calls EXCEPT !.stop = @ + 1]
    /\ UNCHANGED <<platform, probeVars, queued, ret, clock, wpc, interval_ms, slices_left,
                   results, trackerVars, loggerVars, app_logger, obsVars>>

\* variant: wait() without a timeout blocks until the thread has finished
WaitArgForever == WaitForeverMs

\* the timeout handed to QThread.wait
WaitArg == WaitTimeoutMs

\* time passes while the main thread is blocked in wait(): possible only
\* while the worker runs and the timeout has not elapsed
WaitTick ==
    /\ app_pc = "sd_wait"
    /\ wpc # "done"
    /\ waited_ms < WaitArg
    /\ waited_ms' = IF waited_ms + WaitTickMs > WaitArg THEN WaitArg
                    ELSE waited_ms + WaitTickMs
    /\ UNCHANGED <<platform, probeVars, uiVars, clock, workerVars, trackerVars, loggerVars,
                   app_pc, app_logger, obsVars>>

\* wait() returns: the worker finished or the timeout elapsed; the result
\* is not looked at
WaitReturn ==
    /\ app_pc = "sd_wait"
    /\ wpc = "done" \/ waited_ms >= WaitArg
    /\ app_pc' = "sd_close"
    /\ UNCHANGED <<platform, probeVars, uiVars, clock, workerVars, trackerVars, loggerVars,
                   app_logger, waited_ms, obsVars>>

\* summary = self.logger.close()
CloseLogger ==
    /\ app_pc = "sd_close"
    /\ app_logger
    /\ summary' = [written |-> TRUE, total_snapshots |-> snapshot_count]
    /\ app_pc' = "sd_upload"
    /\ calls' = [calls EXCEPT !.close = @ + 1]
    /\ UNCHANGED <<platform, probeVars, queued, ret, clock, workerVars, trackerVars,
                   session_start, snapshot_count, jsonl, app_logger, waited_ms, obsVars>>

\* variant: the logger reference is kept after the upload
FinishSessionKeepsLogger ==
    /\ app_pc = "sd_upload"
    /\ app_pc' = "closed"
    /\ calls' = [calls EXCEPT !.end_session = @ + 1, !.upload = @ + 1]
    /\ UNCHANGED <<platform, probeVars, queued, ret, clock, workerVars, trackerVars,
                   loggerVars, app_logger, waited_ms, obsVars>>

\* end_session(); upload_session(summary, ...); self.logger = None;
\* _shutdown_and_upload returns
FinishSession ==
    /\ app_pc = "sd_upload"
    /\ app_logger' = FALSE
    /\ app_pc' = "closed"
    /\ calls' = [calls EXCEPT !.end_session = @ + 1, !.upload = @ + 1]
    /\ UNCHANGED <<platform, probeVars, queued, ret, clock, workerVars, trackerVars,
                   loggerVars, waited_ms, obsVars>>

\* ------------------------------------------------------------------------
\* The application with its background worker
\* ------------------------------------------------------------------------
Next ==
    \/ StartMonitoring
    \/ WhileCheck
    \/ Poll
    \/ LogSnapshot
    \/ ForCheck
    \/ SleepSlice
    \/ BeginShutdown
    \/ StopWorker
    \/ WaitTick
    \/ WaitReturn
    \/ CloseLogger
    \/ FinishSession

Spec == Init /\ [][Next]_vars

\* ------------------------------------------------------------------------
\* The control interface used directly: start() called again on the same
\* worker instance (QThread.start() is ignored while the thread runs)
\* ------------------------------------------------------------------------
\* variant: starting again clears the stop flag
StartAgainClearsFlag ==
    /\ wpc = "done"
    /\ runs < MaxRuns
    /\ wpc' = "while"
    /\ runs' = runs + 1
    /\ stop_requested' = FALSE
    /\ UNCHANGED <<platform, slept_ms, probeVars, uiVars, clock, interval_ms, slices_left,
                   results, trackerVars, loggerVars, appVars,
                   sink_calls, polls, last_fault, any_fault, slices_after_stop, obs>>

StartAgain ==
    /\ wpc = "done"
    /\ runs < MaxRuns
    /\ wpc' = "while"
    /\ runs' = runs + 1
    /\ UNCHANGED <<platform, slept_ms, probeVars, uiVars, clock, stop_requested, interval_ms, slices_left,
                   results, trackerVars, loggerVars, appVars,
                   sink_calls, polls, last_fault, any_fault, slices_after_stop, obs>>

NextApi == Next \/ StartAgain

ApiSpec == Init /\ [][NextApi]_vars

\* ------------------------------------------------------------------------
\* The activity tracker on its own: successive calls of _get_browser_stats
\* on one worker instance
\* ------------------------------------------------------------------------
StatsPoll ==
    /\ app_pc = "login"
    /\ obs.n < MaxStatsPolls
    /\ \E wins \in WindowsOn(platform, TrackerWindowMaps),
          ps_out \in PsOn(platform, PsOutputs),
          fs \in FsOn(platform, TrackerFileSystems), d \in TrackerSteps :
         LET now == clock + d
             r == BrowserStats(platform, CurrentTracker, wins, ps_out, fs, now)
         IN  /\ now <= Epoch + MaxElapsed
             /\ clock' = now
             /\ SetTracker(r.st)
             /\ Observe(r, now)
    /\ UNCHANGED <<platform, slept_ms, probeVars, uiVars, workerVars, loggerVars, appVars,
                   sink_calls, polls, last_fault, any_fault, slices_after_stop, runs>>

TrackerNext == StatsPoll

TrackerSpec == HarnessInit /\ [][TrackerNext]_vars

\* ------------------------------------------------------------------------
\* The extension scanner on its own: successive calls of
\* _get_extension_summary(now) on one worker instance, the file system
\* changing between calls
\* ------------------------------------------------------------------------
ExtensionCall ==
    /\ app_pc = "login"
    /\ ext_obs.n < MaxExtCalls
    /\ \E fs \in FsOn(platform, ExtFileSystems), d \in ExtSteps :
         LET now == clock + d
             r == ExtensionSummary(platform, ext_cache_time, ext_cache_str, now, fs)
         IN  /\ now <= Epoch + MaxElapsed
             /\ clock' = now
             /\ ext_cache_time' = r.time
             /\ ext_cache_str' = r.str
             /\ ext_obs' = [called |-> TRUE, n |-> ext_obs.n + 1, now |-> now,
                            fs |-> fs,
                            pre_time |-> ext_cache_time,
                            pre_str |-> ext_cache_str,
                            pre_cfs |-> ext_obs.cfs,
                            ret |-> r.ret,
                            cfs |-> IF r.time = now THEN fs ELSE ext_obs.cfs,
                            prev_now |-> ext_obs.now,
                            prev_fs |-> ext_obs.fs,
                            prev_ret |-> ext_obs.ret]
    /\ UNCHANGED <<platform, uiVars, workerVars, prev_titles, switch_history,
                   total_switches, loggerVars, appVars, obsVars, probe_obs>>

ExtNext == ExtensionCall

ExtSpec == HarnessInit /\ [][ExtNext]_vars

\* ------------------------------------------------------------------------
\* The stateless probes on their own: one call with what the operating
\* system shows at that moment (the probes keep nothing between calls, so
\* one call per behaviour is followed)
\* ------------------------------------------------------------------------
BrowserInfoCall ==
    /\ app_pc = "login"
    /\ probe_obs.probe = "none"
    /\ \E inp \in InfoInputs(platform) :
         probe_obs' = [probe |-> "browser_info", inp |-> inp,
                       out |-> BrowserInfo(platform, inp)]
    /\ UNCHANGED <<platform, uiVars, clock, workerVars, trackerVars, loggerVars,
                   appVars, obsVars, ext_obs>>

RunningProgramsCall ==
    /\ app_pc = "login"
    /\ probe_obs.probe = "none"
    /\ \E inp \in ProgInputs(platform) :
         probe_obs' = [probe |-> "programs_info", inp |-> inp,
                       out |-> RunningPrograms(platform, inp)]
    /\ UNCHANGED <<platform, uiVars, clock, workerVars, trackerVars, loggerVars,
                   appVars, obsVars, ext_obs>>

NetworkInfoCall ==
    /\ app_pc = "login"
    /\ probe_obs.probe = "none"
    /\ \E inp \in NetInputs(platform) :
         probe_obs' = [probe |-> "network_info", inp |-> inp,
                       out |-> NetworkInfo(platform, inp)]
    /\ UNCHANGED <<platform, uiVars, clock, workerVars, trackerVars, loggerVars,
                   appVars, obsVars, ext_obs>>

ProbeNext ==
    \/ BrowserInfoCall
    \/ RunningProgramsCall
    \/ NetworkInfoCall

ProbeSpec == HarnessInit /\ [][ProbeNext]_vars

\* ------------------------------------------------------------------------
\* The event handlers of the main window.  Clicks and close requests wait
\* in the event queue while the GUI thread is busy; they are dispatched by
\* the event loop when it is idle and by the processEvents() call inside
\* _close_session.
\* ------------------------------------------------------------------------
UserEvents == {"close_session", "close_window"}

\* a click on "Close Session", or a click on the title bar's close button
\* (CustomTitleBar._close_window -> parent_window.close()), is queued
UserInput ==
    /\ app_pc \notin {"login", "exited"}
    /\ \E e \in UserEvents : e \notin queued /\ queued' = queued \cup {e}
    /\ UNCHANGED <<platform, probeVars, ret, calls, clock, workerVars, trackerVars,
                   loggerVars, appVars, obsVars>>

\* the main thread continues at the return points `points`: "514" is the
\* processEvents() call of _close_session, left for the call of
\* _shutdown_and_upload at line 516; "519" is the self.close() that ends
\* _close_session; with no return point the handler returns to the event
\* loop, the window having been closed
ResumeAt(points) ==
    IF points # << >> /\ Head(points) = "514"
    THEN app_pc' = "sd_stop" /\ ret' = << "516" >>
    ELSE app_pc' = "exited" /\ ret' = << >>

\* closeEvent(event), called with the return points of its caller:
\* if self.logger is not None: self._shutdown_and_upload(); event.accept()
CloseEvent(points) ==
    IF app_logger
    THEN app_pc' = "sd_stop" /\ ret' = << "547" >> \o points
    ELSE ResumeAt(points)

\* the idle event loop dispatches a queued event: the click runs
\* _close_session up to its processEvents() call (the button is disabled
\* first), the close request runs closeEvent
Dispatch ==
    /\ app_pc = "monitoring"
    /\ \E e \in queued :
         /\ queued' = queued \ {e}
         /\ IF e = "close_session"
            THEN IF app_logger
                 THEN app_pc' = "cs_events" /\ ret' = << >>
                 ELSE CloseEvent(<< "519" >>)
            ELSE CloseEvent(<< >>)
    /\ UNCHANGED <<platform, probeVars, calls, clock, workerVars, trackerVars,
                   loggerVars, app_logger, waited_ms, obsVars>>

\* QtWidgets.QApplication.processEvents() in _close_session: a queued click
\* on the disabled button is dropped, a queued close request runs
\* closeEvent inside the handler; then _shutdown_and_upload is called
ProcessEvents ==
    /\ app_pc = "cs_events"
    /\ queued' = {}
    /\ IF "close_window" \in queued
       THEN /\ calls' = [calls EXCEPT !.reentered = TRUE]
            /\ CloseEvent(<< "514" >>)
       ELSE /\ calls' = calls
            /\ app_pc' = "sd_stop" /\ ret' = << "516" >>
    /\ UNCHANGED <<platform, probeVars, clock, workerVars, trackerVars,
                   loggerVars, app_logger, waited_ms, obsVars>>

\* if self.logger: is false, _shutdown_and_upload returns after the wait
SkipFinalize ==
    /\ app_pc = "sd_close"
    /\ ~app_logger
    /\ app_pc' = "closed"
    /\ UNCHANGED <<platform, probeVars, uiVars, clock, workerVars, trackerVars,
                   loggerVars, app_logger, waited_ms, obsVars>>

\* _shutdown_and_upload has returned to its caller: closeEvent (line 547)
\* accepts the event and returns to its own caller; _close_session (line
\* 516) goes on to self.close(), which runs closeEvent
ShutdownReturns ==
    /\ app_pc = "closed"
    /\ ret # << >>
    /\ IF Head(ret) = "547" THEN ResumeAt(Tail(ret))
       ELSE CloseEvent(<< "519" >>)
    /\ UNCHANGED <<platform, probeVars, queued, calls, clock, workerVars, trackerVars,
                   loggerVars, app_logger, waited_ms, obsVars>>

UiNext ==
    \/ StartMonitoring
    \/ WhileCheck
    \/ Poll
    \/ LogSnapshot
    \/ ForCheck
    \/ SleepSlice
    \/ UserInput
    \/ Dispatch
    \/ ProcessEvents
    \/ StopWorker
    \/ WaitTick
    \/ WaitReturn
    \/ CloseLogger
    \/ SkipFinalize
    \/ FinishSession
    \/ ShutdownReturns

\* the handlers never look at the worker's interval: the worker is followed
\* with an interval of one sleep slice
UiInit == InitWith({SliceMs})

UiSpec == UiInit /\ [][UiNext]_vars

\* the worker thread is scheduled and every probe and sink call returns
FairSpec ==
    /\ Spec
    /\ WF_vars(WhileCheck)
    /\ WF_vars(Poll)
    /\ WF_vars(LogSnapshot)
    /\ WF_vars(ForCheck)
    /\ WF_vars(SleepSlice)

\* ------------------------------------------------------------------------
\* Properties
\* ------------------------------------------------------------------------
LastCall == sink_calls[Len(sink_calls)]

HasPayload(entry, field) ==
    IF field = "browser_stats" THEN entry.browser_stats.kind # "none"
    ELSE entry[field] # ""

\* identities present in both maps whose title differs / is the same
Changed(prev, titles) ==
    {h \in DOMAIN prev \cap DOMAIN titles : prev[h] # titles[h]}
Unchanged(prev, titles) ==
    {h \in DOMAIN prev \cap DOMAIN titles : prev[h] = titles[h]}

\* entries of the buffer stamped with the time of the last poll
StampedNow == {i \in 1..Len(switch_history) : switch_history[i] = obs.now}

\* C1: the k-th Snapshot handed to log_system_integrity carries sequence
\* number k (numbering starts at 1 and goes up by one per call).
C1_SequenceNumbers ==
    \A k \in 1..Len(sink_calls) : sink_calls[k].entry.snapshot = k

\* two sink calls were made and the first one failed to append
C1_Witness ==
    /\ Len(sink_calls) = 2
    /\ ~sink_calls[1].persisted
    /\ sink_calls[2].entry.snapshot = 2

\* C2: a poll in which one probe raises still hands a Snapshot to the sink,
\* carrying the payloads of the other three probes.
C2_SnapshotDespiteProbeFault ==
    last_fault # "none" =>
        \E k \in 1..Len(sink_calls) :
            /\ sink_calls[k].poll = polls
            /\ \A i \in 1..Len(Probes) :
                   Probes[i] # last_fault =>
                       HasPayload(sink_calls[k].entry, Probes[i])

\* C3: run() has returned only if a stop was requested, whatever faults the
\* probes raised.
C3_RunReturnsOnlyAfterStop == wpc = "done" => stop_requested

\* run() has returned after a poll in which a probe raised
C3_Witness ==
    /\ wpc = "done"
    /\ any_fault
    /\ polls >= 2

\* C4: when the sink fails to take a Snapshot, run() goes on to the sleep
\* loop with the full number of slices, and, the worker being scheduled,
\* the loop then reaches its next poll unless a stop is requested (or the
\* polls explored are used up).
C4_SinkFailureCaught ==
    /\ [][(Len(sink_calls') > Len(sink_calls)
            /\ ~sink_calls'[Len(sink_calls')].persisted)
          => (wpc' = "for" /\ slices_left' = Slices(interval_ms))]_vars
    /\ \A p \in 1..MaxPolls :
         (sink_calls # << >> /\ ~LastCall.persisted /\ LastCall.poll = p)
            ~> (polls > p \/ stop_requested \/ polls >= MaxPolls)

\* a poll took place after a sink call that failed
C4_Witness ==
    \E k \in 1..Len(sink_calls) :
        /\ ~sink_calls[k].persisted
        /\ polls > sink_calls[k].poll
        /\ wpc = "try"

\* C5: after stop() is requested the loop completes at most one more sleep
\* slice (the one already under way).
C5_AtMostOneSliceAfterStop == slices_after_stop <= 1

\* stop() arrived during a slice with more slices to go, and run() returned
C5_Witness ==
    /\ slices_after_stop = 1
    /\ wpc = "done"
    /\ Slices(interval_ms) >= 2

\* C6: the main thread never spends more than the timeout in wait(), and
\* once the timeout has elapsed it can go on to logger.close() although
\* the worker has not finished.
C6_JoinBounded ==
    /\ waited_ms <= WaitTimeoutMs
    /\ (app_pc = "sd_wait" /\ waited_ms >= WaitTimeoutMs) => ENABLED WaitReturn

\* shutdown went on to logger.close() while the worker is still in a poll
C6_Witness ==
    /\ app_pc = "sd_close"
    /\ wpc = "try"
    /\ waited_ms = WaitTimeoutMs

\* C7: the stop flag is never cleared, and a run() begun by a later
\* start() on the same instance hands nothing to the sink.
C7_NoRestart ==
    [][(stop_requested => stop_requested')
       /\ (runs' > 1 => sink_calls' = sink_calls)]_vars

\* a second start() of a worker that had logged, and its run() returned
C7_Witness ==
    /\ runs = 2
    /\ wpc = "done"
    /\ Len(sink_calls) >= 1

\* C8: when exactly one identity present in both maps changed its title,
\* that identity and no other is recorded, one event is appended and the
\* lifetime counter goes up by one; Docs then Gmail on handle 1 in the
\* first two polls reports 1 and 1.
C8_OneEventPerChange ==
    obs.polled =>
        /\ Cardinality(Changed(obs.prev, obs.titles)) = 1 =>
              /\ obs.events = Changed(obs.prev, obs.titles)
              /\ total_switches = obs.pre_total + 1
              /\ Cardinality(StampedNow) = 1
        /\ (obs.n = 2 /\ obs.prev = [h \in {1} |-> T_Docs]
                      /\ obs.titles = [h \in {1} |-> T_Gmail]) =>
              /\ obs.report.last60 = 1
              /\ obs.report.total = 1

\* the second poll saw handle 1 go from Docs to Gmail
C8_Witness ==
    /\ obs.polled
    /\ obs.n = 2
    /\ obs.prev = [h \in {1} |-> T_Docs]
    /\ obs.titles = [h \in {1} |-> T_Gmail]
    /\ total_switches = 1

\* C9: an identity with the same title in both maps is not recorded, and
\* the counter grows by no more than the number of other identities.
C9_NoEventWhenSame ==
    obs.polled =>
        /\ Unchanged(obs.prev, obs.titles) \cap obs.events = {}
        /\ total_switches - obs.pre_total <=
              Cardinality(DOMAIN obs.titles \ Unchanged(obs.prev, obs.titles))

\* a poll in which one window kept its title while another changed it
C9_Witness ==
    /\ obs.polled
    /\ Unchanged(obs.prev, obs.titles) # {}
    /\ Changed(obs.prev, obs.titles) # {}

\* C10: after a poll every buffered timestamp is at most 60 s old and the
\* buffer holds at most 500 entries.
C10_HistoryBounded ==
    obs.polled =>
        /\ \A i \in 1..Len(switch_history) :
               switch_history[i] >= obs.now - HistoryWindow
        /\ Len(switch_history) <= HistoryMaxLen

\* more than 500 switches fell into one window: the buffer is full
C10_Witness ==
    /\ obs.polled
    /\ total_switches > HistoryMaxLen
    /\ Len(switch_history) = HistoryMaxLen

\* C11: the lifetime counter of one tracker instance never goes down and
\* is never reset: no call of _get_browser_stats leaves it smaller.
C11_CounterMonotone == [][total_switches' >= total_switches]_vars

\* a poll without a switch, after the buffer was emptied by eviction, kept
\* the switches counted before
C11_Witness ==
    /\ obs.polled
    /\ obs.n = 3
    /\ obs.events = {}
    /\ switch_history = << >>
    /\ total_switches >= 1
    /\ total_switches = obs.pre_total

C13_CacheMiss ==
    (ext_obs.called /\ (ext_obs.n = 1
                        \/ ext_obs.now - ext_obs.prev_now >= ExtCacheTtl)) =>
        /\ ext_obs.ret = Recompute(platform, ext_obs.fs)
        /\ ext_cache_str = ext_obs.ret
        /\ ext_cache_time = ext_obs.now

\* exactly 10 s after a call that scanned, the file system having changed,
\* the summary changed
C13_Witness ==
    /\ ext_obs.called
    /\ ext_obs.n >= 2
    /\ ext_obs.now - ext_obs.prev_now = ExtCacheTtl
    /\ ext_obs.pre_time = ext_obs.prev_now
    /\ ext_obs.fs # ext_obs.prev_fs
    /\ ext_obs.ret # ext_obs.prev_ret
    /\ ext_cache_time = ext_obs.now

\* the lines of the last returned summary that report browser b
LinesOf(b) == {i \in 1..Len(ext_obs.ret) : ext_obs.ret[i].name = b}

\* C19: in a summary that was scanned from the candidate directories, a
\* directory that does not exist contributes no line, one that cannot be
\* listed contributes exactly one error line, and every other browser's
\* directory is still reported with its count.
C19_ScanTolerant ==
    (/\ ext_obs.called
     /\ ext_cache_time = ext_obs.now
     /\ platform \in {"Windows", "Darwin"}
     /\ platform = "Windows" => ext_obs.fs.local) =>
        \A k \in 1..Len(ExtBrowsers(platform)) :
            LET b == ExtBrowsers(platform)[k]
                d == ext_obs.fs.dirs[b]
            IN  CASE d.kind = "missing" -> LinesOf(b) = {}
                  [] d.kind = "error" ->
                        /\ Cardinality(LinesOf(b)) = 1
                        /\ \A i \in LinesOf(b) :
                               ext_obs.ret[i].text = "error scanning"
                  [] OTHER ->
                        /\ Cardinality(LinesOf(b)) = 1
                        /\ \A i \in LinesOf(b) :
                               /\ ext_obs.ret[i].text = "extension(s)"
                               /\ ext_obs.ret[i].n = d.n

\* Chrome's folder is missing, Brave's cannot be listed, Edge's holds two
\* extensions: an error line for Brave, then Edge's count
C19_Witness ==
    /\ ext_obs.called
    /\ ext_cache_time = ext_obs.now
    /\ ext_obs.fs = FsBraveError
    /\ ext_obs.ret = << Line("Brave", "error scanning", 0),
                        Line("Edge", "extension(s)", 2) >>

\* C20: a switch is recorded only for an identity present in both the
\* previous and the new title map: an identity new to the map (every one
\* of them on the first poll), or one that was gone for a poll and is
\* back under another title, is not recorded and does not move the counter.
C20_OnlyKnownIdentities ==
    obs.polled =>
        /\ obs.events \subseteq (DOMAIN obs.prev \cap DOMAIN obs.titles)
        /\ obs.events \cap obs.back = {}
        /\ total_switches - obs.pre_total = Cardinality(obs.events)
        /\ (DOMAIN obs.prev \cap DOMAIN obs.titles = {}) =>
              /\ total_switches = obs.pre_total
              /\ StampedNow = {}
        /\ obs.n = 1 => (total_switches = 0 /\ switch_history = << >>)

\* a window seen in the first poll was gone in the second and is back in
\* the third under another title: nothing was ever counted
C20_Witness ==
    /\ obs.polled
    /\ obs.n = 3
    /\ obs.back # {}
    /\ obs.events = {}
    /\ total_switches = 0

\* the last call was one of the window probe
InfoCalled == probe_obs.probe = "browser_info"

\* the title ends with one of the patterns, compared in lower case
EndsWith(title, pats) == title # << >> /\ Lower(title[Len(title)]) \in pats

\* windows the report of the last call counts under one name
CountOf(name) ==
    IF \E i \in 1..Len(probe_obs.out.groups) : probe_obs.out.groups[i].name = name
    THEN LET i == CHOOSE j \in 1..Len(probe_obs.out.groups) :
                      probe_obs.out.groups[j].name = name
         IN  probe_obs.out.groups[i].count
    ELSE 0

\* C14: a window is reported under a family exactly when its title ends,
\* case-insensitively, with one of the family's patterns; a title that has
\* a pattern elsewhere than at its end is not reported as a browser window.
C14_ClassifiedBySuffix ==
    (InfoCalled /\ platform = "Windows") =>
        \A k \in 1..Len(Families) :
            CountOf(Families[k]) =
                Cardinality({i \in 1..Len(probe_obs.inp.wins) :
                    EndsWith(probe_obs.inp.wins[i], TITLE_PATTERNS(Families[k]))})

\* the windows handed to the last call that belong under one name
WindowsOf(name) ==
    IF platform = "Windows"
    THEN {i \in 1..Len(probe_obs.inp.wins) :
            classify_browser(probe_obs.inp.wins[i]) = name}
    ELSE {i \in 1..Len(probe_obs.inp.osa.entries) :
            /\ probe_obs.inp.osa.entries[i].name = name
            /\ name \in BROWSER_NAMES}

\* names under which the last call could report windows
GroupNames ==
    IF platform = "Windows" THEN {Families[k] : k \in 1..Len(Families)}
    ELSE BROWSER_NAMES

\* no window handed to the last call is one of a recognized browser
NoBrowserWindow == \A name \in GroupNames : WindowsOf(name) = {}

\* the rendering of the families: each family that has windows has one
\* group, with its count n, min(n, 10) titles of at most 120 characters
\* (cut ones end in the ellipsis), and "+N more" with N = n - 10 exactly
\* when n > 10
GroupsRendered ==
    /\ \A name \in GroupNames :
          WindowsOf(name) # {} =>
              Cardinality({i \in 1..Len(probe_obs.out.groups) :
                              probe_obs.out.groups[i].name = name}) = 1
    /\ \A i \in 1..Len(probe_obs.out.groups) :
          LET g == probe_obs.out.groups[i]
              n == Cardinality(WindowsOf(g.name))
          IN  /\ n >= 1
              /\ g.count = n
              /\ Len(g.shown) = Min(n, 10)
              /\ \A j \in 1..Len(g.shown) :
                     /\ ShownLen(g.shown[j]) <= 120
                     /\ g.shown[j].ellipsis <=> TitleLen(g.shown[j].text) > 120
                     /\ ~g.shown[j].ellipsis =>
                            ShownLen(g.shown[j]) = TitleLen(g.shown[j].text)
              /\ (g.more # << >>) <=> n > 10
              /\ n > 10 => g.more = << n - 10 >>

\* C15 as stated: the families are rendered as above, and whenever no
\* recognized browser window exists the report is the "none detected"
\* message.
C15_WindowReport ==
    InfoCalled =>
        /\ probe_obs.out.kind = "groups" => GroupsRendered
        /\ NoBrowserWindow => probe_obs.out.kind = "none"

\* C15, amended: the families are rendered as above; when no recognized
\* browser window exists the report is never a rendering of groups: on
\* Windows it is the "none detected" message, on macOS it is what the
\* process check gives (the running browsers without titles, "none
\* detected" when there are none, "unable to enumerate" when ps fails),
\* elsewhere it is the "not supported" message.
C15_WindowReportAmended ==
    InfoCalled =>
        /\ probe_obs.out.kind = "groups" <=> ~NoBrowserWindow
        /\ probe_obs.out.kind = "groups" => GroupsRendered
        /\ (NoBrowserWindow /\ platform = "Windows") =>
              probe_obs.out.kind = "none"
        /\ (NoBrowserWindow /\ platform = "Darwin") =>
              /\ ~probe_obs.inp.ps.ok => probe_obs.out.kind = "unable"
              /\ (probe_obs.inp.ps.ok /\ probe_obs.out.kind # "fallback") =>
                    probe_obs.out.kind = "none"
              /\ probe_obs.out.kind = "fallback" =>
                    /\ probe_obs.out.found # {}
                    /\ \A b \in probe_obs.out.found :
                           FALLBACK_PROCS(b) \in probe_obs.inp.ps.out
        /\ platform \notin {"Windows", "Darwin"} =>
              probe_obs.out.kind = "unsupported"

\* twelve windows of one browser after one with a title of 121 characters:
\* one group of 13, ten titles shown, the first one cut, "+3 more"
C15_Witness ==
    /\ InfoCalled
    /\ probe_obs.out.kind = "groups"
    /\ Len(probe_obs.out.groups) = 1
    /\ probe_obs.out.groups[1].count = 13
    /\ Len(probe_obs.out.groups[1].shown) = 10
    /\ probe_obs.out.groups[1].shown[1].ellipsis
    /\ probe_obs.out.groups[1].more = << 3 >>

\* the last call was one of the process probe
ProgCalled == probe_obs.probe = "programs_info"

\* name and pid of the processes in the listing handed to the last call
ListedProcesses ==
    IF platform = "Windows"
    THEN {[name |-> probe_obs.inp.rows[i].name, pid |-> probe_obs.inp.rows[i].pid] :
            i \in {j \in 1..Len(probe_obs.inp.rows) : probe_obs.inp.rows[j].cols >= 2}}
    ELSE {[name |-> probe_obs.inp.rows[i].comm[Len(probe_obs.inp.rows[i].comm)],
           pid |-> probe_obs.inp.rows[i].pid] :
            i \in {j \in 1..Len(probe_obs.inp.rows) : probe_obs.inp.rows[j].parts >= 2}}

\* C16: when the listing succeeds the report has one line per process, in
\* ascending order of the lower-cased process name, and its leading flag
\* is YES exactly when some listed name contains "cluely" in any case.
C16_ProcessReport ==
    (ProgCalled /\ platform \in {"Windows", "Darwin"}) =>
        /\ probe_obs.out.kind = "list" <=> probe_obs.inp.status = "ok"
        /\ probe_obs.out.kind = "list" =>
              /\ Len(probe_obs.out.lines) = Cardinality(ListedProcesses)
              /\ {[name |-> probe_obs.out.lines[i].name,
                    pid |-> probe_obs.out.lines[i].pid] :
                      i \in 1..Len(probe_obs.out.lines)} = ListedProcesses
              /\ \A i, j \in 1..Len(probe_obs.out.lines) :
                     i < j => TextRank(LowerName(probe_obs.out.lines[i].name))
                                <= TextRank(LowerName(probe_obs.out.lines[j].name))
              /\ probe_obs.out.cluely <=>
                     \E p \in ListedProcesses : ContainsCluely(LowerName(p.name))

\* Zoom, MyCluelyTool and chrome are listed in that order: the report puts
\* chrome first and Zoom last and flags the tool
C16_Witness ==
    /\ ProgCalled
    /\ probe_obs.out.kind = "list"
    /\ probe_obs.out.cluely
    /\ [i \in 1..Len(probe_obs.out.lines) |-> probe_obs.out.lines[i].name]
          = <<"chrome", "MyCluelyTool", "Zoom">>
    /\ [i \in 1..Len(probe_obs.out.lines) |-> probe_obs.out.lines[i].pid]
          = <<3, 2, 1>>

\* the last call was one of the network probe on a supported platform
NetCalled ==
    probe_obs.probe = "network_info" /\ platform \in {"Windows", "Darwin"}

\* the outcomes of the four commands of the last call, in report order
Outcomes ==
    << probe_obs.inp.iface, probe_obs.inp.wifi, probe_obs.inp.nets,
       probe_obs.inp.arp >>

SubProbeFailed(k) == ~Outcomes[k].ok \/ ~Outcomes[k].tool

\* the input of the last call with every command but the k-th succeeding
\* (and finding nothing)
OthersFine(k) ==
    LET pick(j) == IF j = k THEN Outcomes[j] ELSE CmdOk(<< >>, "", "")
    IN  [iface |-> pick(1), wifi |-> pick(2), nets |-> pick(3), arp |-> pick(4)]

\* C17: whichever of the four sub-probes fail, each failed one leaves its
\* inline error / unavailable line, every other section is what it is
\* when nothing fails, and the probe returns without raising.
C17_SubProbesIndependent ==
    NetCalled =>
        /\ ~probe_obs.out.raised
        /\ Len(probe_obs.out.sections) = 4
        /\ \A k \in 1..4 :
              IF SubProbeFailed(k)
              THEN probe_obs.out.sections[k].kind \in {"error", "unavailable"}
              ELSE /\ probe_obs.out.sections[k].kind \in {"data", "empty"}
                   /\ probe_obs.out.sections[k]
                        = NetworkInfo(platform, OthersFine(k)).sections[k]

\* the Wi-Fi command failed and the three other sections are populated
C17_Witness ==
    /\ NetCalled
    /\ probe_obs.out.sections[1].kind = "data"
    /\ probe_obs.out.sections[2].kind = "unavailable"
    /\ probe_obs.out.sections[3].kind = "data"
    /\ probe_obs.out.sections[4].kind = "data"
    /\ probe_obs.out.sections[4].total = 6

\* C18: on Windows and on macOS the report shows min(n, 10) of the n
\* nearby networks, followed by an overflow marker when n > 10, and
\* min(m, 5) of the m neighbours, followed by the count m - 5 when m > 5,
\* together with the total m.
C18_NetworkOverflow ==
    NetCalled =>
        /\ probe_obs.out.sections[3].kind = "data" =>
              LET n == Len(probe_obs.inp.nets.items)
              IN  /\ Len(probe_obs.out.sections[3].shown) = Min(n, 10)
                  /\ (probe_obs.out.sections[3].more # << >>) <=> n > 10
        /\ probe_obs.out.sections[4].kind = "data" =>
              LET m == Len(probe_obs.inp.arp.items)
              IN  /\ probe_obs.out.sections[4].total = m
                  /\ Len(probe_obs.out.sections[4].shown) = Min(m, 5)
                  /\ (probe_obs.out.sections[4].more # << >>) <=> m > 5
                  /\ m > 5 => probe_obs.out.sections[4].more = << m - 5 >>

\* C21: after every poll of the tracker the previous-titles map is exactly
\* the map of browser titles enumerated in that poll: no handle of the older
\* map that was not enumerated again is kept, whether or not a title
\* differed or an event was recorded.
C21_PrevReplaced ==
    obs.polled =>
        /\ prev_titles = obs.titles
        /\ \A h \in DOMAIN obs.prev \ DOMAIN obs.titles : h \notin DOMAIN prev_titles

\* a poll that recorded no event and no longer saw a window of the poll
\* before
C21_Witness ==
    /\ obs.polled
    /\ obs.n >= 2
    /\ DOMAIN obs.prev \ DOMAIN obs.titles # {}
    /\ obs.titles # << >>
    /\ obs.events = {}
    /\ prev_titles = obs.titles

\* the buffer of the pre-state with the events of the last poll appended
AppendedHistory ==
    DequeAppendAll(obs.pre_hist, Cardinality(obs.events), obs.now)

InWindow(t) == obs.now - t <= HistoryWindow

\* C22: in every state the switch-history buffer is ordered by
\* non-decreasing timestamp from head to tail, and popping from the head
\* alone leaves, after a poll, exactly the appended entries that are not
\* older than 60 s.
C22_HistoryOrdered ==
    /\ \A i \in 1..(Len(switch_history) - 1) :
           switch_history[i] <= switch_history[i + 1]
    /\ obs.polled => switch_history = SelectSeq(AppendedHistory, InWindow)

\* the buffer holds events of two polls, the older one at the head
C22_Witness ==
    /\ obs.polled
    /\ Len(switch_history) >= 2
    /\ switch_history[1] < switch_history[Len(switch_history)]
    /\ switch_history[Len(switch_history)] = obs.now

\* C23: in every state the number of events in the switch-history buffer
\* is at most the lifetime counter, and so is the 'last 60s' count of a
\* report next to its total.
C23_WindowAtMostTotal ==
    /\ Len(switch_history) <= total_switches
    /\ obs.polled => obs.report.last60 <= obs.report.total

\* events of an earlier poll were evicted, those of the last poll are
\* buffered: the window count is positive and below the total
C23_Witness ==
    /\ obs.polled
    /\ obs.events # {}
    /\ Len(obs.pre_hist) >= 1
    /\ Len(switch_history) = Cardinality(obs.events)
    /\ Len(switch_history) < total_switches
    /\ obs.report.last60 = Len(switch_history)
    /\ obs.report.total = total_switches

\* the sink calls made while the stop flag was set
CallsAfterStop == {k \in 1..Len(sink_calls) : sink_calls[k].after_stop}

\* C24: however stop() interleaves with the loop, at most one Snapshot is
\* handed to the sink after stop() was requested, and no step taken after
\* run() has returned hands one to the sink.
C24_AtMostOneAfterStop ==
    [][/\ Cardinality(CallsAfterStop') <= 1
       /\ wpc = "done" => sink_calls' = sink_calls]_vars

\* stop() arrived during the second poll: its Snapshot was still logged
\* and run() returned
C24_Witness ==
    /\ wpc = "done"
    /\ Len(sink_calls) = 2
    /\ CallsAfterStop = {2}

\* C25: no Snapshot is handed to the sink after logger.close() has computed
\* the session summary, so the summary's total_snapshots is the number of
\* Snapshots logged in the session, also when wait(2000) timed out while
\* the worker was inside a poll.
C25_SummaryCountsAll ==
    /\ \A k \in 1..Len(sink_calls) : ~sink_calls[k].after_close
    /\ summary.written => summary.total_snapshots = Len(sink_calls)

\* C26: whatever clicks on "Close Session" and close requests arrive after
\* monitoring has started, the worker's stop(), logger.close(),
\* end_session() and upload_session() each run at most once.
C26_FinalizedOnce ==
    /\ calls.stop <= 1
    /\ calls.close <= 1
    /\ calls.end_session <= 1
    /\ calls.upload <= 1

\* C26 (amended): logger.close(), end_session() and upload_session() each
\* run at most once and only while the logger reference is set; stop() runs
\* at most twice, and twice only when a close request was dispatched by the
\* processEvents() call of _close_session.
C26_FinalizedOnceAmended ==
    /\ calls.close <= 1
    /\ calls.end_session <= 1
    /\ calls.upload <= 1
    /\ calls.upload = 1 <=> (~app_logger /\ app_pc # "login")
    /\ calls.stop <= 2
    /\ calls.stop = 2 => calls.reentered

\* "Close Session" was clicked and a close request was handled inside it:
\* the second pass stopped the worker again and skipped the rest
C26_Witness ==
    /\ app_pc = "exited"
    /\ calls.reentered
    /\ calls.stop = 2
    /\ calls.close = 1
    /\ calls.end_session = 1
    /\ calls.upload = 1

\* the sink calls made before logger.close() computed the summary
CallsBeforeClose == {k \in 1..Len(sink_calls) : ~sink_calls[k].after_close}

C28_SlicesBetweenPolls ==
    (wpc = "try" /\ polls >= 2) =>
        LET n == slept_ms \div SliceMs
        IN  /\ slept_ms = n * SliceMs
            /\ n * SliceMs <= interval_ms
            /\ interval_ms < (n + 1) * SliceMs
            /\ interval_ms >= SliceMs => n >= 1
            /\ slept_ms <= interval_ms

\* with an interval of 0.25 s the second poll began after two slices
C28_Witness ==
    /\ wpc = "try"
    /\ polls = 2
    /\ ~stop_requested
    /\ interval_ms = 250
    /\ slept_ms = 2 * SliceMs

====
